---- MODULE Spec2Model ----
(***************************************************************************)
(* Model of the perception-action control loop (SandboxAgent) and of the   *)
(* plan executor (OrchestratorAgent) of os_computer_use.                   *)
(*                                                                         *)
(* Texts are sequences of string fragments (an f-string is the             *)
(* concatenation of its parts).  A file name is the pair <<prefix, n>> of  *)
(* save_image.  A sandbox / collaborator operation is logged as            *)
(* <<operation, detail, ok>>: the operation was attempted with `detail`    *)
(* (a sequence of integers) and returned (ok) or raised (~ok).             *)
(***************************************************************************)
EXTENDS Integers, Sequences, FiniteSets, TLC

\* ------------------------------------------------------------------ bounds
MaxCalls == 2     \* calls other than stop emitted by the action model, or
                  \* calls made directly, over the lifetime of an agent
MaxBatch == 2     \* tool calls in one response of the action model
MaxFaults == 1    \* collaborator calls that raise, over the lifetime of an agent
MaxPlan == 3      \* steps of a plan
MaxTools == 3     \* add_tool calls on one orchestrator
MaxAnalyses == 2  \* analyze_tool calls made directly on one orchestrator

\* --------------------------------------------------------------- registry
\* tool_call.get("name") of a call without a name
NoName == "None"

\* The module-level catalog after the @tool decorators have run
tools ==
    {"stop", "run_command", "run_background_command", "send_key", "type_text",
     "click", "double_click", "right_click", "open_app", "navigate_to_url"}

\* The attributes getattr(self, ...) finds: the decorated methods
Methods ==
    {"run_command", "run_background_command", "send_key", "type_text",
     "click", "double_click", "right_click", "open_app", "navigate_to_url"}

\* Names a caller or the action model may pass
Names == tools \cup {"STOP", "CLICK", "nonexistent_tool", NoName}

\* str.lower() on the names above
Lower(name) ==
    CASE name = "STOP" -> "stop"
      [] name = "CLICK" -> "click"
      [] OTHER -> name

\* Argument mappings: None or {}, the tool's own parameter, a second valid
\* value of it (key combination, non-Chrome app, URL with a scheme), a
\* mapping with a wrong key
ArgKinds == {"empty", "good", "alt", "bad"}

\* Positions the grounding collaborator may return
Positions == {<<100, 200>>, <<5, 7>>}

\* The tools that resolve a position
Pointer == {"click", "double_click", "right_click"}

\* The positions a call of the named tool can be answered with
PositionsFor(name) == IF Lower(name) \in Pointer THEN Positions ELSE {<<0, 0>>}

\* ------------------------------------------------------------ agent state
VARIABLES
    pc,                 \* where the caller / run() stands
    messages,           \* self.messages
    image_counter,      \* self.image_counter
    latest_screenshot,  \* self.latest_screenshot (0 = None, n = screenshot_n.png)
    files,              \* files written to tmp_dir
    should_continue,    \* local of run()
    tool_calls,         \* batch returned by the action model
    idx,                \* position of the for loop in tool_calls
    ops,                \* operations attempted by the last step
    ret,                \* outcome of the last call_function
    emitted,            \* batches returned by the action model in this run
    dispatched,         \* calls passed to call_function in this run
    counts,             \* per-run counters of collaborator calls
    start,              \* Len(messages) when run() was entered
    ncalls,             \* calls counted against MaxCalls so far
    nfaults,            \* collaborator calls that raised so far
    installed           \* __init__ reached "Chrome installed successfully"

agentVars ==
    <<pc, messages, image_counter, latest_screenshot, files, should_continue,
      tool_calls, idx, ops, ret, emitted, dispatched, counts, start,
      ncalls, nfaults, installed>>

\* ------------------------------------------------------ orchestrator state
VARIABLES
    opc,                \* where execute_plan stands
    otools,             \* self.tools
    tool_descriptions,  \* self.tool_descriptions
    tool_analysis,      \* self.tool_analysis
    plan,               \* the steps being executed
    step,               \* index of the current step
    results,            \* results of execute_plan
    invoked,            \* tool.invoke calls: <<step index, tool position,
                        \* whether the call returned>>
    sleeps,             \* time.sleep(1) calls: the step index they precede
    analyses            \* what each analyze_tool call returned, per tool

orchVars ==
    <<opc, otools, tool_descriptions, tool_analysis, plan, step, results,
      invoked, sleeps, analyses>>

vars == <<agentVars, orchVars>>

\* ---------------------------------------------------------------- helpers
SeqsUpTo(S, n) == UNION {[1..m -> S] : m \in 0..n}

\* The first f operations of a planned sequence were attempted and the f-th
\* raised; f = 0: all were attempted and returned
Attempt(planned, f) ==
    IF f = 0 \/ f > Len(planned)
    THEN [i \in 1..Len(planned) |-> <<planned[i][1], planned[i][2], TRUE>>]
    ELSE [i \in 1..f |-> <<planned[i][1], planned[i][2], i < f>>]

Raised(planned, f) == f > 0 /\ f <= Len(planned)

NoCall == [name |-> "", args |-> ""]
NoRet ==
    [kind |-> "none", text |-> <<>>, call |-> NoCall, pos |-> <<0, 0>>,
     f |-> 0]

\* keepalive: set_timeout calls; screenshot: captures asked of the sandbox
\* by the perception step; vision: assessments the vision model returned;
\* action: calls of the action model;
\* narration: non-empty contents the action model returned; returned:
\* call_function calls that returned to run()
NoCounts ==
    [keepalive |-> 0, screenshot |-> 0, vision |-> 0, action |-> 0,
     narration |-> 0, returned |-> 0]

\* ------------------------------------------------ images and screenshots
\* The part of the agent a tool implementation reads and writes
AgentState(c, l, fs) == [counter |-> c, latest |-> l, files |-> fs]

\* Variant: the counter is left as it is
save_image_fixed(st, prefix, fail) ==
    [st |-> AgentState(st.counter, st.latest,
                       IF fail THEN st.files
                       ELSE st.files \cup {<<prefix, st.counter>>}),
     ops |-> << <<"save_image", <<st.counter>>, ~fail>> >>,
     raised |-> fail,
     path |-> st.counter]

\* save_image: the counter is incremented first, then the file is written
\* (fail: the write raises)
save_image(st, prefix, fail) ==
    [st |-> AgentState(st.counter + 1, st.latest,
                       IF fail THEN st.files
                       ELSE st.files \cup {<<prefix, st.counter + 1>>}),
     ops |-> << <<"save_image", <<st.counter + 1>>, ~fail>> >>,
     raised |-> fail,
     path |-> st.counter + 1]

\* Variant: latest_screenshot keeps its value
take_screenshot_stale(st, f) ==
    IF f = 1
    THEN [st |-> st, ops |-> << <<"take_screenshot", <<>>, FALSE>> >>,
          raised |-> TRUE]
    ELSE LET sv == save_image(st, "screenshot", f = 2)
         IN  [st |-> sv.st,
              ops |-> << <<"take_screenshot", <<>>, TRUE>> >> \o sv.ops,
              raised |-> sv.raised]

\* take_screenshot: f = 1 the sandbox capture raises, f = 2 the save raises
take_screenshot(st, f) ==
    IF f = 1
    THEN [st |-> st, ops |-> << <<"take_screenshot", <<>>, FALSE>> >>,
          raised |-> TRUE]
    ELSE LET sv == save_image(st, "screenshot", f = 2)
         IN  [st |-> IF sv.raised THEN sv.st
                     ELSE AgentState(sv.st.counter, sv.path, sv.st.files),
              ops |-> << <<"take_screenshot", <<>>, TRUE>> >> \o sv.ops,
              raised |-> sv.raised]

\* ------------------------------------------------------ tool implementations
\* Every implementation returns [st, ops, raised, text]: the agent state it
\* leaves, the operations it attempted, whether it raised, and the text it
\* returned (or the text of the exception).
Outcome(st, o, r, t) == [st |-> st, ops |-> o, raised |-> r, text |-> t]

SandboxError == <<"sandbox error">>

\* A tool made of sandbox operations only, none of them caught
Plain(st, planned, f, text) ==
    Outcome(st, Attempt(planned, f), Raised(planned, f),
            IF Raised(planned, f) THEN SandboxError ELSE text)

run_command(st, a, f) ==
    Plain(st, << <<"run_command", <<5>>>> >>, f,
          IF a = "good" THEN <<"stdout">>
          ELSE <<"The command finished running.">>)

run_background_command(st, a, f) ==
    Plain(st, << <<"run_background", <<>>>> >>, f,
          <<"The command has been started.">>)

send_key(st, a, f) ==
    Plain(st, << <<IF a = "alt" THEN "hotkey" ELSE "write", <<>>>> >>, f,
          <<"The key has been pressed.">>)

type_text(st, a, f) ==
    Plain(st, << <<"write", <<>>>> >>, f, <<"The text has been typed.">>)

\* Variant: the annotated image is drawn and saved after the click
click_element_late(st, click_func, action_name, pos, f) ==
    LET ts == take_screenshot(st, IF f \in {1, 2} THEN f ELSE 0)
    IN  IF ts.raised
        THEN Outcome(ts.st, ts.ops, TRUE, SandboxError)
        ELSE
        LET shot == ts.st.latest
            ground == <<"grounding_model", <<shot>>, f # 3>>
            draw == <<"draw_big_dot", <<shot, pos[1], pos[2]>>, f # 4>>
            sv == save_image(ts.st, "location", f = 5)
            move == <<"mouse_move", <<pos[1], pos[2]>>, f # 6>>
            press == <<click_func, <<>>, f # 7>>
        IN  CASE f = 3 -> Outcome(ts.st, ts.ops \o <<ground>>, TRUE,
                                  <<"grounding error">>)
              [] f = 6 -> Outcome(ts.st, ts.ops \o <<ground, move>>, TRUE,
                                  SandboxError)
              [] f = 7 -> Outcome(ts.st, ts.ops \o <<ground, move, press>>,
                                  TRUE, SandboxError)
              [] f = 4 -> Outcome(ts.st,
                                  ts.ops \o <<ground, move, press, draw>>,
                                  TRUE, <<"image error">>)
              [] f = 5 -> Outcome(sv.st,
                                  ts.ops \o <<ground, move, press, draw>>
                                         \o sv.ops,
                                  TRUE, <<"image error">>)
              [] OTHER -> Outcome(sv.st,
                                  ts.ops \o <<ground, move, press, draw>>
                                         \o sv.ops,
                                  FALSE,
                                  <<"The mouse has ", action_name, "ed.">>)

\* click_element: f = 1, 2 inside take_screenshot, 3 the grounding call,
\* 4 draw_big_dot, 5 the save of the annotated image, 6 mouse_move,
\* 7 the click primitive
click_element(st, click_func, action_name, pos, f) ==
    LET ts == take_screenshot(st, IF f \in {1, 2} THEN f ELSE 0)
    IN  IF ts.raised
        THEN Outcome(ts.st, ts.ops, TRUE, SandboxError)
        ELSE
        LET shot == ts.st.latest
            ground == <<"grounding_model", <<shot>>, f # 3>>
            draw == <<"draw_big_dot", <<shot, pos[1], pos[2]>>, f # 4>>
            sv == save_image(ts.st, "location", f = 5)
            move == <<"mouse_move", <<pos[1], pos[2]>>, f # 6>>
            press == <<click_func, <<>>, f # 7>>
        IN  CASE f = 3 -> Outcome(ts.st, ts.ops \o <<ground>>, TRUE,
                                  <<"grounding error">>)
              [] f = 4 -> Outcome(ts.st, ts.ops \o <<ground, draw>>, TRUE,
                                  <<"image error">>)
              [] f = 5 -> Outcome(sv.st, ts.ops \o <<ground, draw>> \o sv.ops,
                                  TRUE, <<"image error">>)
              [] f = 6 -> Outcome(sv.st,
                                  ts.ops \o <<ground, draw>> \o sv.ops
                                         \o <<move>>,
                                  TRUE, SandboxError)
              [] f = 7 -> Outcome(sv.st,
                                  ts.ops \o <<ground, draw>> \o sv.ops
                                         \o <<move, press>>,
                                  TRUE, SandboxError)
              [] OTHER -> Outcome(sv.st,
                                  ts.ops \o <<ground, draw>> \o sv.ops
                                         \o <<move, press>>,
                                  FALSE,
                                  <<"The mouse has ", action_name, "ed.">>)

\* Variant: a failure of the pkill is ignored and the browser is launched
navigate_to_url_tolerant(st, a, f) ==
    LET url == IF a = "good" THEN <<"https://", "example.com">>
               ELSE <<"http://example.com">>
        kill == <<"pkill_chrome", <<2>>, f # 1>>
        launch == <<"launch_chrome_url", <<>>, f # 2>>
    IN  Outcome(st, <<kill, launch>>, FALSE,
                IF f = 2
                THEN <<"Failed to navigate to ">> \o url \o <<". Error: ">>
                     \o SandboxError
                ELSE <<"Navigated to ">> \o url)

\* Variant: click bound to the secondary button
click_secondary(st, pos, f) ==
    click_element(st, "right_click", "click", pos, f)


click(st, pos, f) == click_element(st, "left_click", "click", pos, f)

double_click(st, pos, f) ==
    click_element(st, "double_click", "double click", pos, f)

right_click(st, pos, f) ==
    click_element(st, "right_click", "right click", pos, f)

\* open_app: "good" names Chrome, "alt" another application; the sandbox
\* error is caught inside
open_app(st, a, f) ==
    LET planned == IF a = "good" THEN << <<"launch_chrome", <<>>>> >>
                   ELSE << <<"run_app", <<2>>>> >>
        app_name == IF a = "good" THEN "chrome" ELSE "firefox"
    IN  Outcome(st, Attempt(planned, f), FALSE,
                IF Raised(planned, f)
                THEN <<"Could not open ", app_name, ". Error: ">>
                     \o SandboxError
                ELSE IF a = "good"
                THEN <<app_name, " has been opened in headless mode.">>
                ELSE <<app_name, " has been opened.">>)

\* navigate_to_url: "good" is a URL without a scheme, "alt" one with it;
\* f = 1 the pkill raises, f = 2 the launch raises; both are caught inside
navigate_to_url(st, a, f) ==
    LET planned == << <<"pkill_chrome", <<2>>>>, <<"launch_chrome_url", <<>>>> >>
        url == IF a = "good" THEN <<"https://", "example.com">>
               ELSE <<"http://example.com">>
    IN  Outcome(st, Attempt(planned, f), FALSE,
                IF Raised(planned, f)
                THEN <<"Failed to navigate to ">> \o url \o <<". Error: ">>
                     \o SandboxError
                ELSE <<"Navigated to ">> \o url)

\* Number of places where the implementation of a method can be made to fail
NFaults(name) ==
    CASE name \in Pointer -> 7
      [] name = "navigate_to_url" -> 2
      [] OTHER -> 1

\* The places where a call with these arguments can be made to fail: none
\* when no implementation is entered
FaultsFor(name, a) ==
    IF name # NoName /\ Lower(name) \in Methods /\ a \in {"good", "alt"}
    THEN 0..NFaults(Lower(name))
    ELSE {0}

\* A step may fail at place f when the bound on failures allows one more
MayFail(f, n) == f = 0 \/ n < MaxFaults

Failed(f, n) == IF f = 0 THEN n ELSE n + 1

\* getattr(self, name)(**arguments) for a method of the agent
Invoke(name, st, a, pos, f) ==
    CASE name = "run_command" -> run_command(st, a, f)
      [] name = "run_background_command" -> run_background_command(st, a, f)
      [] name = "send_key" -> send_key(st, a, f)
      [] name = "type_text" -> type_text(st, a, f)
      [] name = "click" -> click(st, pos, f)
      [] name = "double_click" -> double_click(st, pos, f)
      [] name = "right_click" -> right_click(st, pos, f)
      [] name = "open_app" -> open_app(st, a, f)
      [] name = "navigate_to_url" -> navigate_to_url(st, a, f)

\* ------------------------------------------------------------ call_function
Result(kind, text, o, st) == [kind |-> kind, text |-> text, ops |-> o, st |-> st]

\* Variant: no try around the implementation, its exception propagates
Caught_propagates(r) == Result("raise", r.text, r.ops, r.st)

\* Lines 66-67: an exception of the implementation becomes the result
Caught(r) ==
    Result("return", <<"Error executing function: ">> \o r.text, r.ops, r.st)

\* Variant: an unknown name is run as a shell command
NotImplemented_runs(st) ==
    Result("return", <<"stdout">>, << <<"run_command", <<5>>, TRUE>> >>, st)

\* Lines 68-69
NotImplemented(st) ==
    Result("return", <<"Function not implemented.">>, <<>>, st)

\* name.lower() raises on a missing name and getattr raises on a catalog
\* entry without a method, both outside the try; func_impl() without
\* arguments and func_impl(**arguments) with a wrong key raise TypeError
\* inside the try
call_function(name, arguments, st, pos, f) ==
    IF name = NoName
    THEN Result("raise", <<"AttributeError">>, <<>>, st)
    ELSE IF Lower(name) \in tools
    THEN IF Lower(name) \notin Methods
         THEN Result("raise", <<"AttributeError">>, <<>>, st)
         ELSE IF arguments \in {"empty", "bad"}
         THEN Caught(Outcome(st, <<>>, TRUE, <<"TypeError">>))
         ELSE LET r == Invoke(Lower(name), st, arguments, pos, f)
              IN  IF r.raised
                  THEN Caught(r)
                  ELSE Result("return", r.text, r.ops, r.st)
    ELSE NotImplemented(st)

\* ------------------------------------------------------------------ run()
\* Calls the action model may emit: the parameterless stop in three
\* spellings, tools with their parameter, a tool with a wrong parameter
\* and a name outside the catalog
RunCalls ==
    {[name |-> n, args |-> "empty"] : n \in {"stop", "STOP", NoName}}
    \cup {[name |-> n, args |-> "good"] :
            n \in {"click", "open_app", "navigate_to_url", "nonexistent_tool"}}
    \cup {[name |-> "type_text", args |-> "bad"]}

Narrations == {<<>>, <<"narration">>}

\* Number of calls of a batch that are not named stop
RECURSIVE NonStop(_)
NonStop(batch) ==
    IF batch = <<>> THEN 0
    ELSE (IF Head(batch).name = "stop" THEN 0 ELSE 1) + NonStop(Tail(batch))

\* Batches the action model may return when k more calls fit the bound
Batches(k) == {b \in SeqsUpTo(RunCalls, MaxBatch) : NonStop(b) <= k}

\* The objective message of line 257
Objective == <<"OBJECTIVE: ", "instruction">>

\* Variant: the content is appended whether or not it is empty
Narrate_always(msgs, content) == Append(msgs, <<"THOUGHT: ">> \o content)

\* Variant: the thought is put in front of the history
Narrate_prepends(msgs, content) ==
    IF content # <<>> THEN << <<"THOUGHT: ">> \o content >> \o msgs ELSE msgs

\* Line 282-283: a non-empty content is appended as a thought
Narrate(msgs, content) ==
    IF content # <<>> THEN Append(msgs, <<"THOUGHT: ">> \o content) ELSE msgs

\* Variant: should_continue keeps the value that entered the iteration
ResetContinue_kept == TRUE

\* Line 285: the value should_continue takes before the for loop
ResetContinue == FALSE

\* Variant: a stop anywhere ahead in the batch ends it at once
IsStop_ahead(batch, i) ==
    \E j \in i..Len(batch) : batch[j].name = "stop"

\* Variant: no call is recognised as stop
IsStop_never(batch, i) == FALSE

\* Line 288: the loop's test of the call at position i of the batch
IsStop(batch, i) == batch[i].name = "stop"

\* Variant: continue instead of break
BreakTo_continue(i, n) == i + 1

\* Line 290: break leaves the for loop, whatever follows position i
BreakTo(i, n) == n + 1

\* Variant: the action model is called right after the keep-alive
Following_unperceived(p) ==
    CASE p = "while" -> "select"
      [] p = "perceive" -> "select"
      [] p = "select" -> "for"

\* Lines 263-286: the step that follows each step of an iteration when it
\* returned: keep-alive, perception (an argument of action_model.call,
\* evaluated before the call), action selection, the for loop
Following(p) ==
    CASE p = "while" -> "perceive"
      [] p = "perceive" -> "select"
      [] p = "select" -> "for"

\* Line 294: json.dumps(tool_call)
CallRecord(tc) == <<"JSON: ", tc.name, tc.args>>

\* Line 297-299
Observation(text) == <<"OBSERVATION: ">> \o text

InstallCommands ==
    << <<"apt_key", <<>>>>, <<"apt_source", <<>>>>, <<"apt_update", <<>>>>,
       <<"apt_install", <<>>>> >>

AgentInit ==
    /\ pc = "new"
    /\ messages = <<>>
    /\ image_counter = 0
    /\ latest_screenshot = 0
    /\ files = {}
    /\ should_continue = FALSE
    /\ tool_calls = <<>>
    /\ idx = 1
    /\ ops = <<>>
    /\ ret = NoRet
    /\ emitted = <<>>
    /\ dispatched = <<>>
    /\ counts = NoCounts
    /\ start = 0
    /\ ncalls = 0
    /\ nfaults = 0
    /\ installed = FALSE

\* Variant: no except clause, a failed command ends the construction
AfterInstall_fatal(f) == IF f = 0 THEN "idle" ELSE "raised"

\* Lines 51-54: the except clause prints the failure and __init__ goes on
\* to line 54, as it does after the fourth command returned
AfterInstall(f) == "idle"

\* __init__: the four installation commands inside one try
Construct ==
    /\ UNCHANGED orchVars
    /\ pc = "new"
    /\ \E f \in 0..Len(InstallCommands) :
         /\ MayFail(f, nfaults)
         /\ ops' = Attempt(InstallCommands, f)
         /\ nfaults' = Failed(f, nfaults)
         /\ installed' = (f = 0)
         /\ pc' = AfterInstall(f)
    /\ UNCHANGED <<messages, image_counter, latest_screenshot, files,
                   should_continue, tool_calls, idx, ret, emitted, dispatched,
                   counts, start, ncalls>>

Outside == {"idle", "called", "stopped", "raised"}

\* A caller invokes call_function directly
CallFunction ==
    /\ UNCHANGED <<orchVars, installed>>
    /\ pc \in Outside
    /\ ncalls < MaxCalls
    /\ \E name \in Names, a \in ArgKinds :
       \E pos \in PositionsFor(name), f \in FaultsFor(name, a) :
         /\ MayFail(f, nfaults)
         /\ nfaults' = Failed(f, nfaults)
         /\ LET r == call_function(name, a,
                        AgentState(image_counter, latest_screenshot, files),
                        pos, f)
            IN  /\ ops' = r.ops
                /\ ret' = [kind |-> r.kind, text |-> r.text,
                           call |-> [name |-> name, args |-> a], pos |-> pos,
                           f |-> f]
                /\ image_counter' = r.st.counter
                /\ latest_screenshot' = r.st.latest
                /\ files' = r.st.files
    /\ pc' = "called"
    /\ ncalls' = ncalls + 1
    /\ UNCHANGED <<messages, should_continue, tool_calls, idx, emitted,
                   dispatched, counts, start>>

\* run(instruction), lines 257-260, on a newly constructed agent
Run ==
    /\ UNCHANGED <<orchVars, installed>>
    /\ pc = "idle"
    /\ messages' = Append(messages, Objective)
    /\ start' = Len(messages)
    /\ should_continue' = TRUE
    /\ pc' = "while"
    /\ tool_calls' = <<>>
    /\ idx' = 1
    /\ ops' = <<>>
    /\ ret' = NoRet
    /\ emitted' = <<>>
    /\ dispatched' = <<>>
    /\ counts' = NoCounts
    /\ UNCHANGED <<image_counter, latest_screenshot, files, ncalls, nfaults>>

\* while should_continue: false, run() returns
LoopExit ==
    /\ UNCHANGED <<orchVars, installed>>
    /\ pc = "while"
    /\ ~should_continue
    /\ pc' = "stopped"
    /\ UNCHANGED <<messages, image_counter, latest_screenshot, files,
                   should_continue, tool_calls, idx, ops, ret, emitted,
                   dispatched, counts, start, ncalls, nfaults>>

\* Line 263: sandbox.set_timeout(60)
KeepAlive ==
    /\ UNCHANGED <<orchVars, installed>>
    /\ pc = "while"
    /\ should_continue
    /\ \E f \in 0..1 :
         /\ MayFail(f, nfaults)
         /\ nfaults' = Failed(f, nfaults)
         /\ ops' = << <<"set_timeout", <<60>>, f = 0>> >>
         /\ pc' = IF f = 0 THEN Following("while") ELSE "raised"
    /\ counts' = [counts EXCEPT !.keepalive = @ + 1]
    /\ UNCHANGED <<messages, image_counter, latest_screenshot, files,
                   should_continue, tool_calls, idx, ret, emitted, dispatched,
                   start, ncalls>>

\* append_screenshot, lines 230-253: one capture, then the vision model;
\* the assessment is returned, self.messages is only read.
\* f = 1, 2 inside take_screenshot, 3 the vision model raises
Perceive ==
    /\ UNCHANGED <<orchVars, installed>>
    /\ pc = "perceive"
    /\ \E f \in 0..3 :
         LET ts == take_screenshot(
                       AgentState(image_counter, latest_screenshot, files),
                       IF f \in {1, 2} THEN f ELSE 0)
         IN  /\ MayFail(f, nfaults)
             /\ nfaults' = Failed(f, nfaults)
             /\ image_counter' = ts.st.counter
             /\ latest_screenshot' = ts.st.latest
             /\ files' = ts.st.files
             /\ ops' = IF ts.raised THEN ts.ops
                       ELSE ts.ops \o << <<"vision_model", <<Len(messages)>>,
                                           f # 3>> >>
             /\ counts' = [counts EXCEPT
                             !.screenshot = @ + 1,
                             !.vision = IF f = 0 THEN @ + 1 ELSE @]
             /\ pc' = IF f = 0 THEN Following("perceive") ELSE "raised"
    /\ UNCHANGED <<messages, should_continue, tool_calls, idx, ret, emitted,
                   dispatched, start, ncalls>>

\* action_model.call and lines 282-285
Select ==
    /\ UNCHANGED <<orchVars, installed>>
    /\ pc = "select"
    /\ \/ /\ MayFail(1, nfaults)
          /\ nfaults' = Failed(1, nfaults)
          /\ ops' = << <<"action_model", <<Len(messages) + 1>>, FALSE>> >>
          /\ counts' = [counts EXCEPT !.action = @ + 1]
          /\ pc' = "raised"
          /\ UNCHANGED <<messages, should_continue, tool_calls, idx, emitted,
                         ncalls>>
       \/ \E content \in Narrations,
             batch \in Batches(MaxCalls - ncalls) :
            /\ ops' = << <<"action_model", <<Len(messages) + 1>>, TRUE>> >>
            /\ counts' = [counts EXCEPT
                            !.action = @ + 1,
                            !.narration = IF content = <<>> THEN @ ELSE @ + 1]
            /\ messages' = Narrate(messages, content)
            /\ should_continue' = ResetContinue
            /\ tool_calls' = batch
            /\ idx' = 1
            /\ emitted' = Append(emitted, batch)
            /\ ncalls' = ncalls + NonStop(batch)
            /\ nfaults' = nfaults
            /\ pc' = Following("select")
    /\ UNCHANGED <<image_counter, latest_screenshot, files, ret, dispatched,
                   start>>

\* The for loop is exhausted
ForDone ==
    /\ UNCHANGED <<orchVars, installed>>
    /\ pc = "for"
    /\ idx > Len(tool_calls)
    /\ pc' = "while"
    /\ UNCHANGED <<messages, image_counter, latest_screenshot, files,
                   should_continue, tool_calls, idx, ops, ret, emitted,
                   dispatched, counts, start, ncalls, nfaults>>

\* Lines 287-290 on a stop: should_continue = False, break
Break ==
    /\ UNCHANGED <<orchVars, installed>>
    /\ pc = "for"
    /\ idx <= Len(tool_calls)
    /\ IsStop(tool_calls, idx)
    /\ should_continue' = FALSE
    /\ idx' = BreakTo(idx, Len(tool_calls))
    /\ UNCHANGED <<pc, messages, image_counter, latest_screenshot, files,
                   tool_calls, ops, ret, emitted, dispatched, counts, start, ncalls, nfaults>>

\* Lines 287-299 on any other call: record, call_function, observation
Dispatch ==
    /\ UNCHANGED <<orchVars, installed>>
    /\ pc = "for"
    /\ idx <= Len(tool_calls)
    /\ ~IsStop(tool_calls, idx)
    /\ should_continue' = TRUE
    /\ LET tc == tool_calls[idx]
       IN  \E pos \in PositionsFor(tc.name),
              f \in FaultsFor(tc.name, tc.args) :
             /\ MayFail(f, nfaults)
             /\ nfaults' = Failed(f, nfaults)
             /\ LET r == call_function(tc.name, tc.args,
                            AgentState(image_counter, latest_screenshot,
                                       files),
                            pos, f)
                IN  /\ ops' = r.ops
                    /\ ret' = [kind |-> r.kind, text |-> r.text, call |-> tc,
                               pos |-> pos, f |-> f]
                    /\ counts' = [counts EXCEPT
                                    !.returned = IF r.kind = "raise" THEN @
                                                 ELSE @ + 1]
                    /\ image_counter' = r.st.counter
                    /\ latest_screenshot' = r.st.latest
                    /\ files' = r.st.files
                    /\ dispatched' = Append(dispatched, tc)
                    /\ messages' =
                         IF r.kind = "raise"
                         THEN Append(messages, CallRecord(tc))
                         ELSE Append(Append(messages, CallRecord(tc)),
                                     Observation(r.text))
                    /\ pc' = IF r.kind = "raise" THEN "raised" ELSE "for"
    /\ idx' = idx + 1
    /\ UNCHANGED <<tool_calls, emitted, start, ncalls>>

AgentNext ==
    \/ Construct
    \/ Run
    \/ LoopExit
    \/ KeepAlive
    \/ Perceive
    \/ Select
    \/ ForDone
    \/ Break
    \/ Dispatch

\* ------------------------------------------------------------ orchestrator
\* Texts the orchestrator inspects are sequences of characters
Upper ==
    <<"A", "B", "C", "D", "E", "F", "G", "H", "I", "J", "K", "L", "M", "N",
      "O", "P", "Q", "R", "S", "T", "U", "V", "W", "X", "Y", "Z">>

LowerCase ==
    <<"a", "b", "c", "d", "e", "f", "g", "h", "i", "j", "k", "l", "m", "n",
      "o", "p", "q", "r", "s", "t", "u", "v", "w", "x", "y", "z">>

\* str.lower(), character by character
LowerChar(c) ==
    IF \E i \in 1..26 : Upper[i] = c
    THEN LowerCase[CHOOSE i \in 1..26 : Upper[i] = c]
    ELSE c

LowerText(t) == [i \in 1..Len(t) |-> LowerChar(t[i])]

\* k in t, for strings
Contains(t, k) ==
    \E i \in 0..(Len(t) - Len(k)) : \A j \in 1..Len(k) : t[i + j] = k[j]

\* x in l, for lists
InList(x, l) == \E i \in 1..Len(l) : l[i] = x

\* Descriptions of the tools of create_tools (langgraph_agent.py)
DescClick ==
    <<"C", "l", "i", "c", "k", " ", "o", "n", " ", "a", "n", " ", "e", "l",
      "e", "m", "e", "n", "t", " ", "m", "a", "t", "c", "h", "i", "n", "g",
      " ", "t", "h", "e", " ", "g", "i", "v", "e", "n", " ", "q", "u", "e",
      "r", "y">>

DescType ==
    <<"T", "y", "p", "e", " ", "t", "e", "x", "t", " ", "i", "n", "t", "o",
      " ", "t", "h", "e", " ", "c", "u", "r", "r", "e", "n", "t", " ", "f",
      "o", "c", "u", "s", "e", "d", " ", "e", "l", "e", "m", "e", "n", "t">>

DescNavigate ==
    <<"N", "a", "v", "i", "g", "a", "t", "e", " ", "t", "o", " ", "a", " ",
      "U", "R", "L", " ", "i", "n", " ", "C", "h", "r", "o", "m", "e">>

DescText(d) ==
    CASE d = "click" -> DescClick
      [] d = "type" -> DescType
      [] d = "navigate" -> DescNavigate

\* Tools handed to add_tool: two distinct tools are named "click"
Tools ==
    {[name |-> "click", description |-> "click", fields |-> <<"query">>],
     [name |-> "type_text", description |-> "type", fields |-> <<"text">>],
     [name |-> "click", description |-> "navigate", fields |-> <<"url">>]}

\* Lines 46-54: capabilities in the order the tests append them
Capabilities(desc_lower) ==
    (IF Contains(desc_lower, <<"b", "r", "o", "w", "s", "e", "r">>)
        \/ Contains(desc_lower, <<"c", "h", "r", "o", "m", "e">>)
     THEN <<"browser_interaction">> ELSE <<>>)
    \o (IF Contains(desc_lower, <<"t", "y", "p", "e">>)
           \/ Contains(desc_lower, <<"i", "n", "p", "u", "t">>)
        THEN <<"text_input">> ELSE <<>>)
    \o (IF Contains(desc_lower, <<"c", "l", "i", "c", "k">>)
        THEN <<"mouse_interaction">> ELSE <<>>)
    \o (IF Contains(desc_lower, <<"r", "e", "a", "d">>)
           \/ Contains(desc_lower, <<"g", "e", "t">>)
        THEN <<"content_extraction">> ELSE <<>>)

\* Lines 57-60: the tests on the capabilities list
Requirements(capabilities) ==
    (IF InList("browser", capabilities)
     THEN <<"browser_must_be_open">> ELSE <<>>)
    \o (IF InList("text_input", capabilities)
        THEN <<"target_element_must_be_focused">> ELSE <<>>)

\* Variant: the capabilities found earlier under the tool's name are kept
analyze_tool_cached(tool) ==
    LET caps == Capabilities(LowerText(DescText(tool.description)))
        known == IF tool.name \in DOMAIN tool_analysis
                 THEN tool_analysis[tool.name].capabilities
                 ELSE <<>>
    IN  [name |-> tool.name,
         description |-> tool.description,
         capabilities |-> known \o caps,
         requirements |-> Requirements(caps),
         effects |-> <<>>,
         parameters |-> tool.fields]

analyze_tool(tool) ==
    LET caps == Capabilities(LowerText(DescText(tool.description)))
    IN  [name |-> tool.name,
         description |-> tool.description,
         capabilities |-> caps,
         requirements |-> Requirements(caps),
         effects |-> <<>>,
         parameters |-> tool.fields]

\* dict[key] = value
Put(d, key, value) ==
    [k \in DOMAIN d \cup {key} |-> IF k = key THEN value ELSE d[k]]

\* Steps a plan may hold: a step for each tool name, a step whose tool was
\* never added, and a step without a description
Steps ==
    {[tool |-> "click", description |-> "a", criteria |-> FALSE],
     [tool |-> "type_text", description |-> "b", criteria |-> TRUE],
     [tool |-> "missing_tool", description |-> "c", criteria |-> FALSE],
     [tool |-> "click", description |-> "", criteria |-> FALSE]}

\* A step mapping without the key "description"
HasDescription(s) == s.description # ""

\* Line 162: next((t for t in self.tools if t.name == tool_name), None),
\* as a position in self.tools (0 = None)
Resolve(ts, tool_name) ==
    IF \E i \in 1..Len(ts) : ts[i].name = tool_name
    THEN CHOOSE i \in 1..Len(ts) :
           /\ ts[i].name = tool_name
           /\ \A j \in 1..(i - 1) : ts[j].name # tool_name
    ELSE 0

\* Lines 178-184
StepSucceeded(s, value) ==
    [step |-> s.description, success |-> TRUE, result |-> value,
     error |-> <<>>]

\* Lines 186-188 and 190-196
StepFailed(s, text) ==
    [step |-> s.description, success |-> FALSE, result |-> <<>>,
     error |-> text]

\* Variant: the delay separates steps, none precedes the first
Slept_between(sl, i) == IF i = 1 THEN sl ELSE Append(sl, i)

\* Line 168: time.sleep(1), first statement of the try of a resolved step
Slept(sl, i) == Append(sl, i)

\* Variant: an unresolved step ends the loop
AfterUnresolved_halts(i, n) == n + 1

\* Lines 189-196: what an unresolved step does to the position in the plan
\* (its result is recorded and the loop goes on)
AfterUnresolved(i, n) == i + 1

OrchInit ==
    /\ opc = "ready"
    /\ otools = <<>>
    /\ tool_descriptions = <<>>
    /\ tool_analysis = <<>>
    /\ plan = <<>>
    /\ step = 1
    /\ results = <<>>
    /\ invoked = <<>>
    /\ sleeps = <<>>
    /\ analyses = [t \in Tools |-> <<>>]

\* The analysis a call of analyze_tool returned, with who called it
Analysed(by, analysis) == [by |-> by, result |-> analysis]

\* Number of analyze_tool calls made by a caller other than add_tool
DirectAnalyses(an) ==
    Cardinality({<<t, i>> \in Tools \X (1..(MaxTools + MaxAnalyses)) :
                   i <= Len(an[t]) /\ an[t][i].by = "caller"})

\* add_tool, lines 64-68
add_tool ==
    /\ UNCHANGED agentVars
    /\ opc = "ready"
    /\ Len(otools) < MaxTools
    /\ \E tool \in Tools :
         /\ otools' = Append(otools, tool)
         /\ tool_descriptions' =
              Put(tool_descriptions, tool.name, tool.description)
         /\ tool_analysis' = Put(tool_analysis, tool.name, analyze_tool(tool))
         /\ analyses' =
              [analyses EXCEPT
                 ![tool] = Append(@, Analysed("add_tool", analyze_tool(tool)))]
    /\ UNCHANGED <<opc, plan, step, results, invoked, sleeps>>

\* analyze_tool called on its own, lines 23-62: the analysis is returned,
\* no attribute of the orchestrator is assigned
AnalyzeTool ==
    /\ UNCHANGED agentVars
    /\ opc = "ready"
    /\ DirectAnalyses(analyses) < MaxAnalyses
    /\ \E tool \in Tools :
         analyses' =
           [analyses EXCEPT
              ![tool] = Append(@, Analysed("caller", analyze_tool(tool)))]
    /\ UNCHANGED <<opc, otools, tool_descriptions, tool_analysis, plan, step,
                   results, invoked, sleeps>>

\* execute_plan is entered: results = []
execute_plan ==
    /\ UNCHANGED <<agentVars, analyses>>
    /\ opc = "ready"
    /\ \E p \in SeqsUpTo(Steps, MaxPlan) :
         plan' = p
    /\ step' = 1
    /\ results' = <<>>
    /\ invoked' = <<>>
    /\ sleeps' = <<>>
    /\ opc' = "exec"
    /\ UNCHANGED <<otools, tool_descriptions, tool_analysis>>

\* One pass of the for loop over a step whose tool is found: sleep, invoke,
\* record; step["description"] raises KeyError on a step without one, in
\* the try and again in the handler
ExecResolved ==
    /\ UNCHANGED <<agentVars, analyses>>
    /\ opc = "exec"
    /\ step <= Len(plan)
    /\ Resolve(otools, plan[step].tool) # 0
    /\ sleeps' = Slept(sleeps, step)
    /\ \E ok \in BOOLEAN :
         /\ invoked' =
              Append(invoked, <<step, Resolve(otools, plan[step].tool), ok>>)
         /\ IF HasDescription(plan[step])
            THEN /\ results' =
                      Append(results,
                             IF ok
                             THEN StepSucceeded(plan[step], <<"output">>)
                             ELSE StepFailed(plan[step], <<"tool error">>))
                 /\ step' = step + 1
                 /\ opc' = "exec"
            ELSE /\ opc' = "raised"
                 /\ UNCHANGED <<results, step>>
    /\ UNCHANGED <<otools, tool_descriptions, tool_analysis, plan>>

\* One pass of the for loop over a step whose tool is not found
ExecUnresolved ==
    /\ UNCHANGED <<agentVars, analyses>>
    /\ opc = "exec"
    /\ step <= Len(plan)
    /\ Resolve(otools, plan[step].tool) = 0
    /\ IF HasDescription(plan[step])
       THEN /\ results' =
                 Append(results,
                        StepFailed(plan[step],
                                   <<"Tool ", plan[step].tool, " not found">>))
            /\ step' = AfterUnresolved(step, Len(plan))
            /\ opc' = "exec"
       ELSE /\ opc' = "raised"
            /\ UNCHANGED <<results, step>>
    /\ UNCHANGED <<otools, tool_descriptions, tool_analysis, plan, invoked,
                   sleeps>>

\* return results
ExecReturn ==
    /\ UNCHANGED <<agentVars, analyses>>
    /\ opc = "exec"
    /\ step > Len(plan)
    /\ opc' = "returned"
    /\ UNCHANGED <<otools, tool_descriptions, tool_analysis, plan, step,
                   results, invoked, sleeps>>

OrchNext ==
    \/ add_tool
    \/ execute_plan
    \/ ExecResolved
    \/ ExecUnresolved
    \/ ExecReturn

\* ----------------------------------------------------------- specifications
Init == AgentInit /\ OrchInit

Next == AgentNext

\* The control loop and the dispatcher of one SandboxAgent
Spec == Init /\ [][Next]_vars

\* The dispatcher called directly
NextCall ==
    \/ Construct
    \/ CallFunction

SpecCall == Init /\ [][NextCall]_vars

NextOrch == OrchNext

\* One OrchestratorAgent
SpecOrch == Init /\ [][NextOrch]_vars

NextAnalyze ==
    \/ add_tool
    \/ AnalyzeTool

\* The tool analysis of one OrchestratorAgent
SpecAnalyze == Init /\ [][NextAnalyze]_vars

\* ------------------------------------------------------------------ claims
IsError(text) == text # <<>> /\ text[1] = "Error executing function: "

Called == ret.kind # "none"

\* C1: for every name of the catalog (stop included) and every argument
\* mapping, call_function returns an observation and never raises.
C1_RegisteredNeverRaises ==
    (Called /\ ret.call.name \in tools) => ret.kind = "return"

\* C2 as stated, on the calls that return: for every name that is not in
\* the catalog, call_function returns "Function not implemented." and
\* performs no sandbox operation.
C2_UnregisteredNotImplemented ==
    (Called /\ ret.call.name \notin tools /\ ret.call.name # NoName
        /\ ret.kind = "return") =>
        /\ ret.text = <<"Function not implemented.">>
        /\ ops = <<>>

\* C2 amended: for every name whose lower-cased form is not in the catalog,
\* call_function returns "Function not implemented.", raises nothing and
\* performs no sandbox operation.
C2_UnknownLowerNotImplemented ==
    (Called /\ ret.call.name # NoName /\ Lower(ret.call.name) \notin tools) =>
        /\ ret.kind = "return"
        /\ ret.text = <<"Function not implemented.">>
        /\ ops = <<>>

C2_Witness ==
    /\ pc = "called"
    /\ ret.call.name = "nonexistent_tool"
    /\ ret.call.args = "good"
    /\ ret.text = <<"Function not implemented.">>

\* Position of the first stop of a batch, 0 when it has none
FirstStop(batch) ==
    IF \E i \in 1..Len(batch) : batch[i].name = "stop"
    THEN CHOOSE i \in 1..Len(batch) :
           /\ batch[i].name = "stop"
           /\ \A j \in 1..(i - 1) : batch[j].name # "stop"
    ELSE 0

RECURSIVE Flat(_)
Flat(batches) ==
    IF batches = <<>> THEN <<>> ELSE Head(batches) \o Flat(Tail(batches))

\* The calls of the batches before the current one
Earlier ==
    IF emitted = <<>> THEN <<>>
    ELSE Flat(SubSeq(emitted, 1, Len(emitted) - 1))

\* The calls of the current batch passed to call_function so far
InBatch == SubSeq(dispatched, Len(Earlier) + 1, Len(dispatched))

\* Entries of the history that begin with the given fragment
Entries(prefix) ==
    Cardinality({i \in (start + 1)..Len(messages) : messages[i][1] = prefix})

\* The loop has met the stop of the current batch
StopReached ==
    /\ pc \in {"for", "while", "stopped"}
    /\ FirstStop(tool_calls) # 0
    /\ idx > FirstStop(tool_calls)

\* C3: once the stop of a batch is reached, no call at or after its position
\* is dispatched or recorded, should_continue is false and no further
\* iteration begins; a batch that starts with stop dispatches nothing.
C3_StopEndsBatch ==
    StopReached =>
        /\ ~should_continue
        /\ Len(InBatch) < FirstStop(tool_calls)
        /\ \A i \in 1..Len(InBatch) : InBatch[i] = tool_calls[i]
        /\ Entries("JSON: ") = Len(dispatched)
        /\ counts.keepalive = Len(emitted)
        /\ (FirstStop(tool_calls) = 1 => InBatch = <<>>)

C3_Witness ==
    /\ pc = "stopped"
    /\ Len(tool_calls) = 2
    /\ tool_calls[1].name = "stop"
    /\ tool_calls[2].name = "click"
    /\ dispatched = <<>>

\* C4 as stated: when a batch contains stop, the calls that precede it are
\* skipped, none of them is dispatched before the loop ends.
C4_PrecedingSkipped ==
    StopReached => InBatch = <<>>

\* C4 amended: when the loop reaches the stop of a batch, every call that
\* precedes it in the batch has been dispatched, in batch order.
C4_PrecedingDispatched ==
    StopReached =>
        InBatch = SubSeq(tool_calls, 1, FirstStop(tool_calls) - 1)

C4_Witness ==
    /\ pc = "stopped"
    /\ Len(tool_calls) = 2
    /\ tool_calls[1].name = "open_app"
    /\ tool_calls[2].name = "stop"
    /\ dispatched = <<tool_calls[1]>>
    /\ ret.kind = "return"

\* C5: when the action model returns no tool call, with or without a
\* narration, the iteration ends the loop with no dispatch, as a stop does;
\* in the first iteration run() ends after one keep-alive, one perception
\* and one action-selection call.
C5_EmptyBatchEnds ==
    (pc \in {"for", "while", "stopped"} /\ emitted # <<>>
        /\ emitted[Len(emitted)] = <<>>) =>
        /\ ~should_continue
        /\ dispatched = Earlier
        /\ counts.keepalive = Len(emitted)
        /\ (Len(emitted) = 1 =>
              /\ dispatched = <<>>
              /\ counts.keepalive = 1
              /\ counts.screenshot = 1
              /\ counts.vision = 1
              /\ counts.action = 1)

C5_Witness ==
    /\ pc = "stopped"
    /\ emitted = << <<>> >>
    /\ counts.narration = 1

\* The action model emitted one call per response, none named stop, and
\* then a response holding only stop
OneByOneThenStop ==
    /\ emitted # <<>>
    /\ \A i \in 1..(Len(emitted) - 1) :
         Len(emitted[i]) = 1 /\ emitted[i][1].name # "stop"
    /\ Len(emitted[Len(emitted)]) = 1
    /\ emitted[Len(emitted)][1].name = "stop"

\* C6: after n calls other than stop, one per response, followed by stop,
\* call_function has been invoked exactly n times, on the emitted calls in
\* their order, and is not invoked again.
C6_OneDispatchPerCall ==
    OneByOneThenStop =>
        /\ pc \in {"for", "while", "stopped"}
        /\ dispatched = [i \in 1..(Len(emitted) - 1) |-> emitted[i][1]]
        /\ counts.returned = Len(emitted) - 1
        /\ counts.action = Len(emitted)

C6_Witness ==
    /\ pc = "stopped"
    /\ Len(emitted) = 3
    /\ OneByOneThenStop
    /\ emitted[1][1].name = "open_app"
    /\ emitted[2][1].name = "navigate_to_url"
    /\ Len(dispatched) = 2

RunEnded == pc \in {"stopped", "raised"}

\* C7 as stated: at the end of run() the history has grown by one entry
\* for the objective, one per perception assessment, one per non-empty
\* narration, one per call record and one per observation.
C7_GrowthWithAssessments ==
    pc = "stopped" =>
        Len(messages) - start =
            1 + counts.vision + counts.narration + Len(dispatched)
              + counts.returned

\* C7 amended: at the end of run() the history has grown by one entry for
\* the objective, one per non-empty narration, one per call record and one
\* per observation; the perception assessments are not in the history.
C7_GrowthWithoutAssessments ==
    RunEnded =>
        /\ Len(messages) - start =
             1 + counts.narration + Len(dispatched) + counts.returned
        /\ Entries("OBJECTIVE: ") = 1
        /\ Entries("THOUGHT: ") = counts.narration
        /\ Entries("JSON: ") = Len(dispatched)
        /\ Entries("OBSERVATION: ") = counts.returned

C7_Witness ==
    /\ pc = "stopped"
    /\ counts.vision = 2
    /\ counts.narration = 1
    /\ counts.returned = 1
    /\ Len(messages) = 4

\* The implementation entered by the call of r raised
ImplRaised(r) ==
    /\ r.call.name # NoName
    /\ Lower(r.call.name) \in Methods
    /\ \/ r.call.args \in {"empty", "bad"}
       \/ Invoke(Lower(r.call.name), AgentState(0, 0, {}), r.call.args,
                 r.pos, r.f).raised

\* C8: a call whose implementation raises does not end the run: its error
\* text is appended as the observation after its record, the loop moves to
\* the next call of the batch as after a success, and the calls of a batch
\* are dispatched in order.
C8_ErrorIsObserved ==
    /\ [][(pc = "for" /\ dispatched' # dispatched /\ ImplRaised(ret')) =>
            /\ ret'.kind = "return"
            /\ IsError(ret'.text)
            /\ pc' = "for"
            /\ idx' = idx + 1
            /\ should_continue'
            /\ messages' = messages \o <<CallRecord(tool_calls[idx]),
                                         Observation(ret'.text)>>]_vars
    /\ [](pc = "for" /\ (FirstStop(tool_calls) = 0
                          \/ idx <= FirstStop(tool_calls))
            => InBatch = SubSeq(tool_calls, 1, idx - 1))

C8_Witness ==
    /\ pc = "perceive"
    /\ counts.keepalive = 2
    /\ Len(dispatched) = 2
    /\ \E i \in 1..(Len(messages) - 1) :
         /\ messages[i][1] = "OBSERVATION: "
         /\ IsError(Tail(messages[i]))
         /\ messages[i + 1] = CallRecord(dispatched[2])

\* The capture, grounding, pointer and button operations of a step, in the
\* order they were attempted
IsPointerOp(o) ==
    o[1] \in {"take_screenshot", "grounding_model", "mouse_move",
              "left_click", "double_click", "right_click"}

PointerOps(o) ==
    LET sel == SelectSeq(o, IsPointerOp)
    IN  [i \in 1..Len(sel) |->
           <<sel[i][1], IF sel[i][1] = "mouse_move" THEN sel[i][2] ELSE <<>>>>]

\* C9: one click(query) performs one screenshot capture, one grounding
\* call, one pointer move to the position that call returned and then one
\* left click, in that order, and no other pointer or button operation; a
\* collaborator that raises cuts the sequence short, it never reorders it.
C9_ClickSequence ==
    (Called /\ ret.call.name # NoName /\ Lower(ret.call.name) = "click"
        /\ ret.call.args \in {"good", "alt"}) =>
        LET full == << <<"take_screenshot", <<>>>>,
                       <<"grounding_model", <<>>>>,
                       <<"mouse_move", ret.pos>>,
                       <<"left_click", <<>>>> >>
            done == PointerOps(ops)
        IN  /\ Len(done) <= Len(full)
            /\ done = SubSeq(full, 1, Len(done))
            /\ \A i \in 1..(Len(ops) - 1) : ops[i][3]
            /\ (ret.f = 0 =>
                  /\ done = full
                  /\ ops[Len(ops)][3]
                  /\ ret.text = <<"The mouse has ", "click", "ed.">>)

C9_Witness ==
    /\ pc = "called"
    /\ ret.call = [name |-> "click", args |-> "good"]
    /\ ret.pos = <<100, 200>>
    /\ ret.f = 0
    /\ ret.text = <<"The mouse has ", "click", "ed.">>

\* Steps of the plan whose tool is among the added tools
ResolvedSteps == {i \in 1..Len(plan) : Resolve(otools, plan[i].tool) # 0}

Results == {analyses[t][i].result : <<t, i>> \in
              {<<u, j>> \in Tools \X (1..(MaxTools + MaxAnalyses)) :
                 j <= Len(analyses[u])}}

\* C11: every analysis returned by analyze_tool carries the requirement
\* browser_must_be_open when its capabilities include browser_interaction,
\* and target_element_must_be_focused when they include text_input.
C11_DerivedRequirements ==
    \A a \in Results :
        /\ InList("browser_interaction", a.capabilities) =>
             InList("browser_must_be_open", a.requirements)
        /\ InList("text_input", a.capabilities) =>
             InList("target_element_must_be_focused", a.requirements)

\* C12: every call of analyze_tool on a tool returns the same analysis,
\* whatever was added or analysed before it and whoever calls it, and a
\* call of analyze_tool leaves tools, tool_descriptions and tool_analysis
\* as they were.
C12_AnalysisDependsOnToolOnly ==
    /\ [](\A t \in Tools : \A i, j \in 1..Len(analyses[t]) :
            analyses[t][i].result = analyses[t][j].result)
    /\ [][DirectAnalyses(analyses') > DirectAnalyses(analyses) =>
            UNCHANGED <<otools, tool_descriptions, tool_analysis>>]_vars

C12_Witness ==
    LET nav == [name |-> "click", description |-> "navigate",
                fields |-> <<"url">>]
    IN  /\ Len(otools) = 2
        /\ otools[1] = nav
        /\ otools[2].description = "click"
        /\ tool_analysis["click"].description = "click"
        /\ Len(analyses[nav]) = 3
        /\ analyses[nav][1].by = "caller"
        /\ analyses[nav][2].by = "add_tool"
        /\ analyses[nav][3].by = "caller"
        /\ InList("browser_interaction", analyses[nav][3].result.capabilities)

\* C13: every grounding call of a step follows, with nothing in between,
\* a capture of that step and the save of its image; the screenshot it is
\* passed is that image, which is the agent's latest_screenshot and the
\* newest screenshot on file.
C13_GroundingSeesLatestCapture ==
    \A i \in 1..Len(ops) :
        ops[i][1] = "grounding_model" =>
            /\ i > 2
            /\ ops[i - 2] = <<"take_screenshot", <<>>, TRUE>>
            /\ ops[i - 1] = <<"save_image", ops[i][2], TRUE>>
            /\ <<"screenshot", ops[i][2][1]>> \in files
            /\ latest_screenshot = ops[i][2][1]
            /\ \A fl \in files :
                 fl[1] = "screenshot" => fl[2] <= latest_screenshot

C13_Witness ==
    /\ pc = "for"
    /\ ret.call.name = "click"
    /\ ret.kind = "return"
    /\ ret.f = 0
    /\ counts.screenshot = 1
    /\ <<"screenshot", 1>> \in files
    /\ latest_screenshot = 2
    /\ ops[3] = <<"grounding_model", <<2>>, TRUE>>

\* C14: whichever installation command raises, construction completes
\* with the agent as new (empty history, counter 0, no screenshot), and
\* run() enters its loop from that state, the same state it enters it from
\* after a successful installation.
C14_InstallFailureNotFatal ==
    /\ [][pc = "new" =>
            /\ pc' = "idle"
            /\ UNCHANGED <<messages, image_counter, latest_screenshot,
                           files>>]_vars
    /\ [][pc = "idle" =>
            /\ pc' = "while"
            /\ should_continue'
            /\ messages' = <<Objective>>
            /\ image_counter' = 0
            /\ latest_screenshot' = 0
            /\ files' = {}
            /\ counts' = NoCounts]_vars

C14_Witness ==
    /\ ~installed
    /\ pc = "stopped"
    /\ counts.keepalive = 2
    /\ Len(dispatched) = 1
    /\ dispatched[1].name = "open_app"
    /\ ret.kind = "return"
    /\ ~IsError(ret.text)

\* Number of operations of the given name among those of the last step
OpCount(name) == Cardinality({i \in 1..Len(ops) : ops[i][1] = name})

\* C15: in iteration n + 1 the keep-alive has been called once more than
\* the iterations completed before perception starts, perception asks for
\* one capture, and the action model is called only after the vision model
\* has returned its assessment.
C15_IterationOrder ==
    LET n == Len(emitted)
        at(k, s, v, a) ==
            /\ counts.keepalive = k
            /\ counts.screenshot = s
            /\ counts.vision = v
            /\ counts.action = a
    IN  /\ pc = "perceive" =>
              /\ at(n + 1, n, n, n)
              /\ ops = << <<"set_timeout", <<60>>, TRUE>> >>
        /\ pc = "select" =>
              /\ at(n + 1, n + 1, n + 1, n)
              /\ OpCount("take_screenshot") = 1
              /\ ops[1][1] = "take_screenshot"
              /\ ops[Len(ops)] = <<"vision_model", <<Len(messages)>>, TRUE>>
        /\ pc \in {"for", "while", "stopped"} => at(n, n, n, n)
        /\ counts.action <= counts.vision
        /\ counts.vision <= counts.screenshot
        /\ counts.screenshot <= counts.keepalive
        /\ counts.keepalive <= counts.action + 1
        /\ n <= counts.action

C15_Witness ==
    /\ pc = "select"
    /\ Len(emitted) = 1
    /\ counts.keepalive = 2
    /\ counts.screenshot = 2
    /\ counts.vision = 2
    /\ counts.action = 1

\* C16: in the history of a run the record of every call that carries a
\* name is followed at once by the observation of that call (a dispatch is
\* one step of the loop, so no other call begins in between).
C16_RecordThenObservation ==
    \A i \in (start + 1)..Len(messages) :
        (messages[i][1] = "JSON: " /\ messages[i][2] # NoName) =>
            /\ i < Len(messages)
            /\ messages[i + 1][1] = "OBSERVATION: "

IsPrefix(a, b) == Len(a) <= Len(b) /\ SubSeq(b, 1, Len(a)) = a

\* C17: every step leaves the history an extension of what it was; the
\* construction, the keep-alive and the perception step leave it unchanged;
\* the step of the action model adds at most the thought line 283 appends;
\* a dispatch adds the record and the observation lines 294-299 append, and
\* call_function and the tool it runs add nothing.
C17_HistoryAppendOnly ==
    [][/\ IsPrefix(messages, messages')
       /\ pc \in {"new", "while", "perceive"} => messages' = messages
       /\ pc = "idle" => messages' = Append(messages, Objective)
       /\ pc = "select" =>
            \/ messages' = messages
            \/ \E c \in Narrations \ {<<>>} :
                 messages' = Append(messages, <<"THOUGHT: ">> \o c)
       /\ (pc = "for" /\ messages' # messages) =>
            /\ idx <= Len(tool_calls)
            /\ \/ /\ ret'.kind = "raise"
                  /\ messages' = Append(messages, CallRecord(tool_calls[idx]))
               \/ /\ ret'.kind = "return"
                  /\ messages' = messages \o <<CallRecord(tool_calls[idx]),
                                               Observation(ret'.text)>>]_vars

C17_Witness ==
    /\ pc = "stopped"
    /\ Len(messages) = 4
    /\ messages[1] = Objective
    /\ messages[2] = <<"THOUGHT: ", "narration">>
    /\ messages[3] = CallRecord([name |-> "click", args |-> "good"])
    /\ messages[4] = Observation(<<"The mouse has ", "click", "ed.">>)

\* The direct call of a pointer tool with its parameter
PointerCall ==
    /\ Called
    /\ ret.call.name # NoName
    /\ Lower(ret.call.name) \in Pointer
    /\ ret.call.args \in {"good", "alt"}

Presses == {"left_click", "double_click", "right_click"}

\* Positions in ops of the operations of the given names
At(names) == {i \in 1..Len(ops) : ops[i][1] \in names}

\* Positions in ops of the drawing and the save of the annotated image
Annotation ==
    At({"draw_big_dot"})
    \cup {i \in At({"save_image"}) : \E g \in At({"grounding_model"}) : g < i}

\* C18 as stated: the pointer move and the click come before the drawing
\* and the save of the annotated image, and a failure of the drawing or of
\* the save does not prevent the click.
C18_ClickBeforeAnnotation ==
    PointerCall =>
        /\ \A a \in Annotation, p \in At(Presses \cup {"mouse_move"}) : p < a
        /\ ret.f \in {4, 5} => At(Presses) # {}

\* The click primitive and the action name each pointer tool passes
Primitive(name) ==
    CASE name = "click" -> "left_click"
      [] name = "double_click" -> "double_click"
      [] name = "right_click" -> "right_click"

ActionName(name) ==
    CASE name = "click" -> "click"
      [] name = "double_click" -> "double click"
      [] name = "right_click" -> "right click"

\* C18 amended: a pointer tool captures the screen, saves the capture,
\* resolves the position, draws and saves the annotated image, moves the
\* pointer and then clicks; an operation that raises ends the sequence
\* there, so a failure of the drawing or of the save prevents the move and
\* the click and the call returns the error as its observation.
C18_AnnotationBeforeClick ==
    PointerCall =>
        LET tool == Lower(ret.call.name)
            full == <<"take_screenshot", "save_image", "grounding_model",
                      "draw_big_dot", "save_image", "mouse_move",
                      Primitive(tool)>>
            done == [i \in 1..Len(ops) |-> ops[i][1]]
        IN  /\ Len(done) <= Len(full)
            /\ done = SubSeq(full, 1, Len(done))
            /\ \A i \in 1..(Len(ops) - 1) : ops[i][3]
            /\ ret.kind = "return"
            /\ ret.f = 0 =>
                 /\ done = full
                 /\ ops[Len(ops)][3]
                 /\ ret.text = <<"The mouse has ", ActionName(tool), "ed.">>
            /\ ret.f > 0 =>
                 /\ Len(done) = ret.f
                 /\ ~ops[Len(ops)][3]
                 /\ IsError(ret.text)
            /\ ret.f \in 1..5 => At(Presses \cup {"mouse_move"}) = {}

C18_Witness ==
    /\ pc = "called"
    /\ ret.call = [name |-> "double_click", args |-> "good"]
    /\ ret.f = 5
    /\ Len(ops) = 5
    /\ ops[5] = <<"save_image", <<2>>, FALSE>>
    /\ IsError(ret.text)

IsSave(o) == o[1] = "save_image"

SaveOps(o) == SelectSeq(o, IsSave)

\* C19: the counter never decreases; a step that saves images raises it by
\* one per save_image call, each call names its file with the value it
\* raised the counter to, and every image written is a new file: no two
\* files of the agent share a number.
C19_CounterNamesImages ==
    /\ [](\A fl \in files : fl[2] \in 1..image_counter)
    /\ [](\A a, b \in files : a[2] = b[2] => a = b)
    /\ [][/\ image_counter' >= image_counter
          /\ files \subseteq files'
          /\ (image_counter' # image_counter \/ files' # files) =>
               LET sv == SaveOps(ops')
               IN  /\ image_counter' = image_counter + Len(sv)
                   /\ \A i \in 1..Len(sv) : sv[i][2] = <<image_counter + i>>
                   /\ Cardinality(files') =
                        Cardinality(files)
                          + Cardinality({i \in 1..Len(sv) : sv[i][3]})]_vars

C19_Witness ==
    /\ pc = "select"
    /\ image_counter = 4
    /\ files = {<<"screenshot", 1>>, <<"screenshot", 2>>, <<"location", 3>>,
                <<"screenshot", 4>>}

\* C20: when every collaborator call has returned and every call of the
\* batch carries a name, run() goes on to a further iteration exactly when
\* the batch it was given is not empty and holds no stop, and the loop ends
\* in no other way.
C20_ContinuesIffNoStop ==
    (/\ nfaults = 0
     /\ emitted # <<>>
     /\ pc \in {"while", "stopped", "raised"}
     /\ \A j \in 1..Len(emitted[Len(emitted)]) :
          emitted[Len(emitted)][j].name # NoName) =>
        LET batch == emitted[Len(emitted)]
        IN  (pc = "while" /\ should_continue)
                <=> (batch # <<>> /\ FirstStop(batch) = 0)

\* C21: a recorded result has success = true exactly when the tool of its
\* step was invoked and the call returned, whatever the success_criteria;
\* every invocation that raised is recorded as a failed result with the
\* error text, and execute_plan goes on after it.
C21_SuccessIffInvocationReturned ==
    /\ \A i \in 1..Len(results) :
         results[i].success <=>
           \E j \in 1..Len(invoked) : invoked[j][1] = i /\ invoked[j][3]
    /\ \A j \in 1..Len(invoked) :
         ~invoked[j][3] =>
           /\ opc # "raised"
           /\ Len(results) >= invoked[j][1]
           /\ ~results[invoked[j][1]].success
           /\ results[invoked[j][1]].error = <<"tool error">>

\* The steps execute_plan has finished handling
Handled == IF opc \in {"exec", "returned"} THEN 1..(step - 1) ELSE {}

\* C22 as stated: every handled step after the first was preceded by the
\* delay, whether or not its tool was found.
C22_DelayBetweenSteps ==
    \A i \in Handled : i > 1 => InList(i, sleeps)

\* C22 amended: the delay is taken once before every tool invocation, the
\* one of the first step included, and only there: the steps slept for are
\* the steps invoked, in order, and a step whose tool is not found is
\* handled without a delay.
C22_DelayBeforeEveryInvocation ==
    /\ sleeps = [j \in 1..Len(invoked) |-> invoked[j][1]]
    /\ \A j \in 1..Len(sleeps) : sleeps[j] \in ResolvedSteps
    /\ \A i \in Handled : i \in ResolvedSteps <=> InList(i, sleeps)

C22_Witness ==
    /\ opc = "returned"
    /\ Len(plan) = 3
    /\ ResolvedSteps = {1, 3}
    /\ plan[2].tool = "missing_tool"
    /\ Len(results) = 3
    /\ sleeps = <<1, 3>>

\* C23: no exception leaves run() from the dispatch of a call that carries
\* a name: every such call the loop does not take for stop returns from
\* call_function.
C23_DispatchNeverRaises ==
    ~(pc = "raised" /\ ret.kind = "raise" /\ ret.call.name # NoName)

\* C24: the tool execute_plan invokes for a name is the tool whose
\* description and analysis are cached under that name.
C24_InvokedToolIsCachedTool ==
    \A j \in 1..Len(invoked) :
        LET t == otools[invoked[j][2]]
        IN  /\ tool_descriptions[t.name] = t.description
            /\ tool_analysis[t.name] = analyze_tool(t)

\* C25: execute_plan never raises to its caller.
C25_ExecutePlanNeverRaises ==
    opc # "raised"

\* C26: navigate_to_url never raises; the pkill is its first command; the
\* launch follows exactly when the pkill returned; when the pkill raised
\* no launch is issued and the observation reports the failed navigation.
C26_LaunchOnlyAfterKill ==
    (Called /\ ret.call.name # NoName
        /\ Lower(ret.call.name) = "navigate_to_url"
        /\ ret.call.args \in {"good", "alt"}) =>
        /\ ret.kind = "return"
        /\ ~IsError(ret.text)
        /\ Len(ops) \in 1..2
        /\ ops[1][1] = "pkill_chrome"
        /\ Len(ops) = 2 <=> ops[1][3]
        /\ Len(ops) = 2 => ops[2][1] = "launch_chrome_url"
        /\ ~ops[1][3] => ret.text[1] = "Failed to navigate to "
        /\ ret.text[1] = "Navigated to " <=> \A i \in 1..Len(ops) : ops[i][3]

C26_Witness ==
    /\ pc = "called"
    /\ ret.call = [name |-> "navigate_to_url", args |-> "good"]
    /\ ret.f = 1
    /\ ops = << <<"pkill_chrome", <<2>>, FALSE>> >>
    /\ ret.text[1] = "Failed to navigate to "

====
